---- MODULE Spec2Model ----
(***************************************************************************)
(* alpine-timeago: the x-timeago directive (live binding controller), the  *)
(* $timeago magic function, TimeAgo.configure and the date-fns distance    *)
(* formatter bundled in dist/alpine-timeago.js.                            *)
(*                                                                         *)
(* A JavaScript time value (milliseconds since the Unix epoch) is kept as  *)
(* a pair sec/ms with 0 <= ms < 1000, so that real Unix times fit TLC's    *)
(* integers; the value is sec * 1000 + ms.  An Invalid Date (time value    *)
(* NaN) has valid = FALSE.                                                 *)
(***************************************************************************)
EXTENDS Integers, Sequences, FiniteSets, TLC

VARIABLES
    variant,      \* "ts": src/index.ts; "js": src/index.js, dist/alpine-timeago.js
    modifiers,    \* the modifier list of the directive
    zone,         \* the local time zone of the host
    phase,        \* "detached", "attached" or "destroyed"
    value,        \* the current value of the bound expression
    interval,     \* the directive's variable interval; 0 is undefined
    timers,       \* the host's live interval timers
    nextId,       \* the handle the host's next setInterval returns
    textContent,  \* el.textContent
    last,         \* the handler that ran last
    trace,        \* what the last handler called, in order
    events,       \* the events the last handler dispatched on el
    logged,       \* the number of console.error calls of the last handler
    hostError,    \* whether an error left the last handler
    visibility,   \* the last notification of the IntersectionObserver
    now,          \* Date.now()
    locale,       \* the module's variable locale
    configResult, \* what the last TimeAgo.configure returned
    magicResult,  \* what the last $timeago call returned
    input,        \* the arguments of a direct call of a distance formatter
    output        \* what the direct calls of the formatter returned, in order

vars == <<variant, modifiers, zone, phase, value, interval, timers, nextId,
          textContent, last, trace, events, logged, hostError, visibility,
          now, locale, configResult, magicResult, input, output>>

----------------------------------------------------------------------------
(* Bounds of the model *)

\* timer handles the host hands out before the model stops arming
MaxTimerId == 3
\* seconds of wall-clock time explored after the start of the clock
MaxElapsed == 30

----------------------------------------------------------------------------
(* Program constants *)

millisecondsInMinute == 60000
minutesInYear == 525600
minutesInMonth == 43200
minutesInDay == 1440
minutesInAlmostTwoDays == 2520
DefaultIntervalDuration == 30000
SecondsIntervalDuration == 5000

Undefined == "undefined"

----------------------------------------------------------------------------
(* Time values *)

Time(s, m) == [valid |-> TRUE, sec |-> s, ms |-> m]
InvalidDate == [valid |-> FALSE, sec |-> 0, ms |-> 0]

\* a duration in milliseconds as sec * 1000 + ms with 0 <= ms < 1000
Duration(s, m) == [sec |-> s + (m \div 1000), ms |-> m % 1000]

\* +toDate(laterDate) - +toDate(earlierDate), both valid
differenceInMilliseconds(laterDate, earlierDate) ==
    Duration(laterDate.sec - earlierDate.sec, laterDate.ms - earlierDate.ms)

\* sign of a duration
DurationSign(d) ==
    IF d.sec < 0 THEN -1 ELSE IF d.sec = 0 /\ d.ms = 0 THEN 0 ELSE 1

\* Math.floor, Math.ceil, Math.round, Math.trunc of d / (1000 * k) milliseconds
FloorDiv(d, k) == d.sec \div k
CeilDiv(d, k) == IF d.sec % k = 0 /\ d.ms = 0 THEN d.sec \div k
                 ELSE (d.sec \div k) + 1
\* Math.round rounds halves up: floor(x + 1/2)
RoundDiv(d, k) == FloorDiv(Duration(d.sec + (k \div 2),
                                    d.ms + (k % 2) * 500), k)
TruncDiv(d, k) == IF d.sec < 0 THEN CeilDiv(d, k) ELSE FloorDiv(d, k)

\* getRoundingMethod that takes "round" for Math.trunc too
getRoundingMethodTruncating(method, d, k) ==
    CASE method = "floor" -> FloorDiv(d, k)
      [] method = "ceil"  -> CeilDiv(d, k)
      [] OTHER            -> TruncDiv(d, k)

\* getRoundingMethod(method)(d / (1000 * k)); an absent method is Math.trunc
getRoundingMethod(method, d, k) ==
    CASE method = "floor" -> FloorDiv(d, k)
      [] method = "ceil"  -> CeilDiv(d, k)
      [] method = "round" -> RoundDiv(d, k)
      [] OTHER            -> TruncDiv(d, k)

\* Math.floor(n / k) in the place of Math.round(n / k)
MathFloor(n, k) == n \div k

\* Math.round(n / k) for integers n and k > 0
MathRound(n, k) == (2 * n + k) \div (2 * k)

\* compareAsc that takes the time value of an Invalid Date for 0
compareAscOfNumbers(dateLeft, dateRight) ==
    [nan |-> FALSE,
     sign |-> DurationSign(differenceInMilliseconds(dateLeft, dateRight))]

\* compareAsc without its branch for diff < 0: 1 for any two different dates
compareAscUnsigned(dateLeft, dateRight) ==
    IF ~dateLeft.valid \/ ~dateRight.valid THEN [nan |-> TRUE, sign |-> 0]
    ELSE [nan |-> FALSE,
          sign |-> IF dateLeft = dateRight THEN 0 ELSE 1]

\* compareAsc: the sign of dateLeft - dateRight; nan when the difference is NaN
compareAsc(dateLeft, dateRight) ==
    IF ~dateLeft.valid \/ ~dateRight.valid THEN [nan |-> TRUE, sign |-> 0]
    ELSE [nan |-> FALSE,
          sign |-> DurationSign(differenceInMilliseconds(dateLeft, dateRight))]

\* differenceInSeconds that rounds to the nearest second
differenceInSecondsRounded(laterDate, earlierDate) ==
    getRoundingMethod("round",
                      differenceInMilliseconds(laterDate, earlierDate), 1)

\* getRoundingMethod(options?.roundingMethod)(diff), options absent
differenceInSeconds(laterDate, earlierDate) ==
    getRoundingMethod(Undefined,
                      differenceInMilliseconds(laterDate, earlierDate), 1)

----------------------------------------------------------------------------
(* The local time zone of the host: the offset east of UTC, in seconds, is *)
(* before up to the transition instant at and after from then on.          *)

UTC == [before |-> 0, at |-> 0, after |-> 0]
\* Europe/Berlin around the end of summer time, 2015-10-25T01:00:00Z
Berlin == [before |-> 7200, at |-> 1445734800, after |-> 3600]
Zones == {Berlin}

LocalOffsetSeconds(z, date) == IF date.sec < z.at THEN z.before ELSE z.after

\* getTimezoneOffsetInMilliseconds of a zone that never changes its offset
getTimezoneOffsetInMillisecondsFixed(z, date) == (0 - z.before) * 1000

\* +date - Date.UTC(local fields of date): minus the local offset
getTimezoneOffsetInMilliseconds(z, date) == (0 - LocalOffsetSeconds(z, date)) * 1000

----------------------------------------------------------------------------
(* Locales.  A JavaScript value that can stand where a locale is expected  *)
(* is described by its typeof and by its own formatDistance property:      *)
(* "none" when it has none, else the name of the function.                 *)

JSValue(t, f) == [type |-> t, formatDistance |-> f]
Null == JSValue("null", "none")
JSUndefined == JSValue("undefined", "none")
enUS == JSValue("object", "enUS")
\* a locale supplied by the application, such as date-fns/locale/de
customLocale == JSValue("object", "custom")
emptyObject == JSValue("object", "none")
localeName == JSValue("string", "none")

\* the result of a call: a returned text, or a thrown error
Return(t) == [threw |-> FALSE, error |-> "", text |-> t]
Throw(e) == [threw |-> TRUE, error |-> e, text |-> ""]

Tokens == {"lessThanXSeconds", "xSeconds", "halfAMinute", "lessThanXMinutes",
           "xMinutes", "aboutXHours", "xHours", "xDays", "aboutXMonths",
           "xMonths", "aboutXYears", "xYears", "overXYears", "almostXYears"}

\* formatDistanceLocale: other is the text around {{count}}
formatDistanceLocale(token) ==
    CASE token = "lessThanXSeconds" ->
            [one |-> "less than a second", pre |-> "less than ", post |-> " seconds"]
      [] token = "xSeconds" ->
            [one |-> "1 second", pre |-> "", post |-> " seconds"]
      [] token = "halfAMinute" ->
            [one |-> "half a minute", pre |-> "half a minute", post |-> ""]
      [] token = "lessThanXMinutes" ->
            [one |-> "less than a minute", pre |-> "less than ", post |-> " minutes"]
      [] token = "xMinutes" ->
            [one |-> "1 minute", pre |-> "", post |-> " minutes"]
      [] token = "aboutXHours" ->
            [one |-> "about 1 hour", pre |-> "about ", post |-> " hours"]
      [] token = "xHours" ->
            [one |-> "1 hour", pre |-> "", post |-> " hours"]
      [] token = "xDays" ->
            [one |-> "1 day", pre |-> "", post |-> " days"]
      [] token = "aboutXMonths" ->
            [one |-> "about 1 month", pre |-> "about ", post |-> " months"]
      [] token = "xMonths" ->
            [one |-> "1 month", pre |-> "", post |-> " months"]
      [] token = "aboutXYears" ->
            [one |-> "about 1 year", pre |-> "about ", post |-> " years"]
      [] token = "xYears" ->
            [one |-> "1 year", pre |-> "", post |-> " years"]
      [] token = "overXYears" ->
            [one |-> "over 1 year", pre |-> "over ", post |-> " years"]
      [] token = "almostXYears" ->
            [one |-> "almost 1 year", pre |-> "almost ", post |-> " years"]

\* result of formatDistance$1 before the suffix: tokenValue itself when it is
\* a string, tokenValue.one for a count of 1, else tokenValue.other with the
\* count in the place of {{count}}
tokenText(tokenValue, token, count) ==
    IF token = "halfAMinute" THEN tokenValue.one
    ELSE IF count = 1 THEN tokenValue.one
    ELSE tokenValue.pre \o ToString(count) \o tokenValue.post

\* the English locale with the words of aboutXMonths for xMonths
enUSTextAboutMonths(token, count) ==
    tokenText(formatDistanceLocale(IF token = "xMonths" THEN "aboutXMonths"
                                   ELSE token),
              token, count)

\* the token text of the English locale, before the suffix
enUSText(token, count) == tokenText(formatDistanceLocale(token), token, count)

\* the suffix with "in" for equal dates too
withSuffixInForEqual(result, addSuffix, comparison) ==
    IF addSuffix
    THEN IF comparison >= 0 THEN "in " \o result ELSE result \o " ago"
    ELSE result

\* if (options?.addSuffix) { "in " + result or result + " ago" }
withSuffix(result, addSuffix, comparison) ==
    IF addSuffix
    THEN IF comparison > 0 THEN "in " \o result ELSE result \o " ago"
    ELSE result

\* formatDistance$1 of the English locale
formatDistance1(token, count, addSuffix, comparison) ==
    withSuffix(enUSText(token, count), addSuffix, comparison)

\* formatDistance of the application's locale: the token and the count,
\* marked with the direction when a suffix is asked for
customFormatDistance(token, count, addSuffix, comparison) ==
    LET result == token \o ":" \o ToString(count) IN
    IF addSuffix
    THEN IF comparison > 0 THEN "+" \o result ELSE "-" \o result
    ELSE result

\* locale.formatDistance(token, count, localizeOptions) with
\* locale = options.locale ?? defaultOptions.locale ?? enUS
localeFormatDistance(loc, token, count, addSuffix, comparison) ==
    LET l == IF loc.type \in {"null", "undefined"} THEN enUS ELSE loc IN
    CASE l.formatDistance = "enUS" ->
            Return(formatDistance1(token, count, addSuffix, comparison))
      [] l.formatDistance = "custom" ->
            Return(customFormatDistance(token, count, addSuffix, comparison))
      [] OTHER -> Throw("TypeError: locale.formatDistance is not a function")

----------------------------------------------------------------------------
(* Calendar fields of a date in the local time zone (getFullYear, getMonth *)
(* 0..11, getDate, and the second of the day), and the Date that setDate   *)
(* and setMonth build from possibly overflowing fields.                    *)

\* days from 1970-01-01 to the first of month m (0..11, may overflow) of year y
DaysFromCivil(y, m) ==
    LET yy  == y + (m \div 12)
        mm  == (m % 12) + 1
        yc  == IF mm <= 2 THEN yy - 1 ELSE yy
        era == yc \div 400
        yoe == yc - era * 400
        mp  == IF mm > 2 THEN mm - 3 ELSE mm + 9
        doy == (153 * mp + 2) \div 5
        doe == yoe * 365 + (yoe \div 4) - (yoe \div 100) + doy
    IN era * 146097 + doe - 719468

\* year, month (0..11) and day of the month of day number n
CivilFromDays(n) ==
    LET zz  == n + 719468
        era == zz \div 146097
        doe == zz - era * 146097
        yoe == (doe - (doe \div 1460) + (doe \div 36524) - (doe \div 146096)) \div 365
        doy == doe - (365 * yoe + (yoe \div 4) - (yoe \div 100))
        mp  == (5 * doy + 2) \div 153
        d   == doy - ((153 * mp + 2) \div 5) + 1
        mm  == IF mp < 10 THEN mp + 3 ELSE mp - 9
        yy  == yoe + era * 400 + (IF mm <= 2 THEN 1 ELSE 0)
    IN [year |-> yy, month |-> mm - 1, day |-> d]

\* the fields of the local time l seconds, ms milliseconds after the epoch
FieldsOfLocalTime(c, l, ms) ==
    [year |-> c.year, month |-> c.month, day |-> c.day,
     secOfDay |-> l % 86400, ms |-> ms]

LocalFields(z, date) ==
    LET l == date.sec + LocalOffsetSeconds(z, date)
    IN FieldsOfLocalTime(CivilFromDays(l \div 86400), l, date.ms)

\* the date whose local fields are f, the day and the month overflowing into
\* the next months and years as in MakeDay; a local time that the zone skips
\* or repeats is read with the offset before the transition
FromLocalFields(z, f) ==
    LET l == (DaysFromCivil(f.year, f.month) + f.day - 1) * 86400 + f.secOfDay
        u == Time(l - z.before, f.ms)
    IN IF u.sec < z.at \/ l - z.after < z.at THEN u ELSE Time(l - z.after, f.ms)

\* yearsDiff * 12 + monthsDiff of the local fields l and e
calendarMonthsBetween(l, e) == (l.year - e.year) * 12 + (l.month - e.month)

differenceInCalendarMonths(z, laterDate, earlierDate) ==
    calendarMonthsBetween(LocalFields(z, laterDate), LocalFields(z, earlierDate))

\* +endOfDay(date) = +endOfMonth(date): the next local day is a first of month
isLastDayOfMonth(z, date) ==
    LET l == date.sec + LocalOffsetSeconds(z, date)
    IN CivilFromDays((l \div 86400) + 1).day = 1

Abs(n) == IF n < 0 THEN 0 - n ELSE n

\* setDate(30) on a date after the 27th of February
setDate30(z, w0) ==
    IF w0.month = 1 /\ w0.day > 27
    THEN LocalFields(z, FromLocalFields(z, [w0 EXCEPT !.day = 30]))
    ELSE w0

\* setMonth(getMonth() - months)
setMonthBack(z, w, months) ==
    FromLocalFields(z, [w EXCEPT !.month = w.month - months])

\* the body of differenceInMonths once sign = compareAsc(laterDate, earlierDate)
\* and difference = Math.abs(differenceInCalendarMonths(...)) are known
fullMonths(z, laterDate, earlierDate, sign, difference) ==
    LET workingLaterDate ==
            setMonthBack(z, setDate30(z, LocalFields(z, laterDate)),
                         sign * difference)
        notFull == compareAsc(workingLaterDate, earlierDate).sign = 0 - sign
        isLastMonthNotFull ==
            IF /\ isLastDayOfMonth(z, laterDate)
               /\ difference = 1
               /\ compareAsc(laterDate, earlierDate).sign = 1
            THEN FALSE ELSE notFull
    IN IF difference < 1 THEN 0
       ELSE sign * (difference - (IF isLastMonthNotFull THEN 1 ELSE 0))

\* differenceInMonths that counts months of 30 days
differenceInMonthsOfThirtyDays(z, laterDate, earlierDate) ==
    differenceInSeconds(laterDate, earlierDate) \div (minutesInMonth * 60)

differenceInMonths(z, laterDate, earlierDate) ==
    fullMonths(z, laterDate, earlierDate,
               compareAsc(laterDate, earlierDate).sign,
               Abs(differenceInCalendarMonths(z, laterDate, earlierDate)))

----------------------------------------------------------------------------
(* The distance formatters of date-fns *)

Options(addSuffix, includeSeconds, unit, roundingMethod, loc) ==
    [addSuffix |-> addSuffix, includeSeconds |-> includeSeconds, unit |-> unit,
     roundingMethod |-> roundingMethod, locale |-> loc]

\* the ladder of formatDistance from "if (minutes < 2)" on, for the seconds,
\* minutes and months it has computed; comparison is the sign of compareAsc
distanceInWords(options, comparison, seconds, minutes, months) ==
    LET localize(token, count) ==
            localeFormatDistance(options.locale, token, count,
                                 options.addSuffix, comparison)
    IN
    IF minutes < 2 THEN
        IF options.includeSeconds THEN
            IF seconds < 5 THEN localize("lessThanXSeconds", 5)
            ELSE IF seconds < 10 THEN localize("lessThanXSeconds", 10)
            ELSE IF seconds < 20 THEN localize("lessThanXSeconds", 20)
            ELSE IF seconds < 40 THEN localize("halfAMinute", 0)
            ELSE IF seconds < 60 THEN localize("lessThanXMinutes", 1)
            ELSE localize("xMinutes", 1)
        ELSE
            IF minutes = 0 THEN localize("lessThanXMinutes", 1)
            ELSE localize("xMinutes", minutes)
    ELSE IF minutes < 45 THEN localize("xMinutes", minutes)
    ELSE IF minutes < 90 THEN localize("aboutXHours", 1)
    ELSE IF minutes < minutesInDay THEN
        localize("aboutXHours", MathRound(minutes, 60))
    ELSE IF minutes < minutesInAlmostTwoDays THEN localize("xDays", 1)
    ELSE IF minutes < minutesInMonth THEN
        localize("xDays", MathRound(minutes, minutesInDay))
    ELSE IF minutes < minutesInMonth * 2 THEN
        localize("aboutXMonths", MathRound(minutes, minutesInMonth))
    ELSE IF months < 12 THEN
        localize("xMonths", MathRound(minutes, minutesInMonth))
    ELSE
        LET monthsSinceStartOfYear == months % 12
            years == months \div 12
        IN IF monthsSinceStartOfYear < 3 THEN localize("aboutXYears", years)
           ELSE IF monthsSinceStartOfYear < 9 THEN localize("overXYears", years)
           ELSE localize("almostXYears", years + 1)

formatDistance(z, laterDate, earlierDate, options) ==
    LET comparison == compareAsc(laterDate, earlierDate)
        laterDate_ == IF comparison.sign > 0 THEN earlierDate ELSE laterDate
        earlierDate_ == IF comparison.sign > 0 THEN laterDate ELSE earlierDate
        seconds == differenceInSeconds(earlierDate_, laterDate_)
        offsetInSeconds ==
            (getTimezoneOffsetInMilliseconds(z, earlierDate_)
               - getTimezoneOffsetInMilliseconds(z, laterDate_)) \div 1000
        minutes == MathRound(seconds - offsetInSeconds, 60)
        months == differenceInMonths(z, earlierDate_, laterDate_)
    IN
    IF comparison.nan THEN Throw("RangeError: Invalid time value")
    ELSE distanceInWords(options, comparison.sign, seconds, minutes, months)

\* formatDistanceStrict that writes every count of the unit month in months
formatDistanceStrictInMonths(z, laterDate, earlierDate, options) ==
    LET comparison == compareAsc(laterDate, earlierDate)
        laterDate_ == IF comparison.sign > 0 THEN earlierDate ELSE laterDate
        earlierDate_ == IF comparison.sign > 0 THEN laterDate ELSE earlierDate
        method == IF options.roundingMethod = Undefined THEN "round"
                  ELSE options.roundingMethod
        milliseconds == differenceInMilliseconds(earlierDate_, laterDate_)
        timezoneOffset == getTimezoneOffsetInMilliseconds(z, earlierDate_)
                            - getTimezoneOffsetInMilliseconds(z, laterDate_)
        dstNormalized == Duration(milliseconds.sec, milliseconds.ms - timezoneOffset)
        unit == IF options.unit = Undefined THEN
                    IF milliseconds.sec < 60 THEN "second"
                    ELSE IF milliseconds.sec < 60 * 60 THEN "minute"
                    ELSE IF milliseconds.sec < minutesInDay * 60 THEN "hour"
                    ELSE IF dstNormalized.sec < minutesInMonth * 60 THEN "day"
                    ELSE IF dstNormalized.sec < minutesInYear * 60 THEN "month"
                    ELSE "year"
                ELSE options.unit
        localize(token, count) ==
            localeFormatDistance(options.locale, token, count,
                                 options.addSuffix, comparison.sign)
    IN
    IF comparison.nan THEN Throw("RangeError: Invalid time value")
    ELSE CASE unit = "second" ->
                localize("xSeconds", getRoundingMethod(method, milliseconds, 1))
           [] unit = "minute" ->
                localize("xMinutes", getRoundingMethod(method, milliseconds, 60))
           [] unit = "hour" ->
                localize("xHours", getRoundingMethod(method, milliseconds, 60 * 60))
           [] unit = "day" ->
                localize("xDays",
                         getRoundingMethod(method, dstNormalized, minutesInDay * 60))
           [] unit = "month" ->
                localize("xMonths",
                         getRoundingMethod(method, dstNormalized, minutesInMonth * 60))
           [] OTHER ->
                localize("xYears",
                         getRoundingMethod(method, dstNormalized, minutesInYear * 60))

formatDistanceStrict(z, laterDate, earlierDate, options) ==
    LET comparison == compareAsc(laterDate, earlierDate)
        laterDate_ == IF comparison.sign > 0 THEN earlierDate ELSE laterDate
        earlierDate_ == IF comparison.sign > 0 THEN laterDate ELSE earlierDate
        \* options.roundingMethod ?? "round"
        method == IF options.roundingMethod = Undefined THEN "round"
                  ELSE options.roundingMethod
        milliseconds == differenceInMilliseconds(earlierDate_, laterDate_)
        timezoneOffset == getTimezoneOffsetInMilliseconds(z, earlierDate_)
                            - getTimezoneOffsetInMilliseconds(z, laterDate_)
        \* (milliseconds - timezoneOffset), in minutes once divided by 60 seconds
        dstNormalized == Duration(milliseconds.sec, milliseconds.ms - timezoneOffset)
        defaultUnit == options.unit
        unit == IF defaultUnit = Undefined THEN
                    IF milliseconds.sec < 60 THEN "second"
                    ELSE IF milliseconds.sec < 60 * 60 THEN "minute"
                    ELSE IF milliseconds.sec < minutesInDay * 60 THEN "hour"
                    ELSE IF dstNormalized.sec < minutesInMonth * 60 THEN "day"
                    ELSE IF dstNormalized.sec < minutesInYear * 60 THEN "month"
                    ELSE "year"
                ELSE defaultUnit
        months == getRoundingMethod(method, dstNormalized, minutesInMonth * 60)
        localize(token, count) ==
            localeFormatDistance(options.locale, token, count,
                                 options.addSuffix, comparison.sign)
    IN
    IF comparison.nan THEN Throw("RangeError: Invalid time value")
    ELSE IF unit = "second" THEN
        localize("xSeconds", getRoundingMethod(method, milliseconds, 1))
    ELSE IF unit = "minute" THEN
        localize("xMinutes", getRoundingMethod(method, milliseconds, 60))
    ELSE IF unit = "hour" THEN
        localize("xHours", getRoundingMethod(method, milliseconds, 60 * 60))
    ELSE IF unit = "day" THEN
        localize("xDays",
                 getRoundingMethod(method, dstNormalized, minutesInDay * 60))
    ELSE IF unit = "month" THEN
        IF months = 12 /\ defaultUnit # "month" THEN localize("xYears", 1)
        ELSE localize("xMonths", months)
    ELSE
        localize("xYears",
                 getRoundingMethod(method, dstNormalized, minutesInYear * 60))

\* formatDistance(date, constructNow(date), options)
formatDistanceToNow(z, clock, date, options) ==
    formatDistance(z, date, clock, options)

\* formatDistanceStrict(date, constructNow(date), options)
formatDistanceToNowStrict(z, clock, date, options) ==
    formatDistanceStrict(z, date, clock, options)

\* +toDate(date) < Date.now(); a comparison with NaN is false
isPast(clock, date) ==
    date.valid /\ compareAsc(date, clock).sign < 0

----------------------------------------------------------------------------
(* Values of the bound expression: a Date or a string *)

DateValue(d) == [type |-> "date", str |-> "", date |-> d]
StringValue(s) == [type |-> "string", str |-> s, date |-> InvalidDate]

\* the start of the clock: 2015-10-25T00:59:40Z
StartOfClock == Time(1445734780, 0)

\* parseISO on the strings the bound expression takes in this model
parseISO(str) ==
    CASE str = "2015-10-25T00:59:00Z" -> Time(1445734740, 0)
      [] str = "2015-10-25T00:59:50.500Z" -> Time(1445734790, 500)
      [] OTHER -> InvalidDate

Values == {DateValue(Time(1445734770, 0)),
           StringValue("2015-10-25T00:59:50.500Z"),
           StringValue("not-a-date")}

\* the value of the bound expression when the directive attaches
InitialValue == DateValue(Time(1445734770, 0))

\* toDate of a Date, or of a string handed to the Date constructor
toDate(v) == IF v.type = "string" THEN parseISO(v.str) ELSE v.date

----------------------------------------------------------------------------
(* The modifier list of the directive *)

ModifierLists == {<< >>, <<"pure", "seconds">>,
                  <<"strict", "unit", "minute", "rounding", "ceil">>,
                  <<"seconds", "strict", "unit", "fortnight", "rounding">>}

\* modifiers.includes(name)
includes(mods, name) == \E i \in 1..Len(mods) : mods[i] = name

\* the word after the last occurrence of name, as findLastIndex would give it
modifierAfterLast(mods, name) ==
    LET last_ == CHOOSE i \in 1..Len(mods) :
                    mods[i] = name /\ \A j \in (i + 1)..Len(mods) : mods[j] # name
    IN IF last_ + 1 <= Len(mods) THEN mods[last_ + 1] ELSE Undefined

\* modifiers[modifiers.findIndex(m => m === name) + 1] || undefined
modifierAfter(mods, name) ==
    LET first == CHOOSE i \in 1..Len(mods) :
                    mods[i] = name /\ \A j \in 1..(i - 1) : mods[j] # name
    IN IF first + 1 <= Len(mods) THEN mods[first + 1] ELSE Undefined

unitOf(mods) ==
    LET innerUnit == IF includes(mods, "unit") THEN modifierAfter(mods, "unit")
                     ELSE Undefined
    IN IF innerUnit \in {"second", "minute", "hour", "day", "month", "year"}
       THEN innerUnit ELSE Undefined

roundingMethodOf(mods) ==
    LET innerRounding == IF includes(mods, "rounding")
                         THEN modifierAfter(mods, "rounding") ELSE Undefined
    IN IF innerRounding \in {"floor", "ceil", "round"}
       THEN innerRounding ELSE Undefined

\* a render in which the modifier "seconds" selects the approximate mode
formatLabelSecondsFirst(mods, z, clock, loc, date) ==
    IF includes(mods, "strict") /\ ~includes(mods, "seconds")
    THEN formatDistanceToNowStrict(z, clock, date,
             Options(~includes(mods, "pure"), FALSE, unitOf(mods),
                     roundingMethodOf(mods), loc))
    ELSE formatDistanceToNow(z, clock, date,
             Options(~includes(mods, "pure"), includes(mods, "seconds"),
                     Undefined, Undefined, loc))

\* the body of render's try block up to the assignment of el.textContent
formatLabel(mods, z, clock, loc, date) ==
    IF includes(mods, "strict")
    THEN formatDistanceToNowStrict(z, clock, date,
             Options(~includes(mods, "pure"), FALSE, unitOf(mods),
                     roundingMethodOf(mods), loc))
    ELSE formatDistanceToNow(z, clock, date,
             Options(~includes(mods, "pure"), includes(mods, "seconds"),
                     Undefined, Undefined, loc))

\* dispatch with the test of the date turned round: isPast for a future date
dispatchIsFuture(clock, date) ==
    [type |-> "timeago:render", isPast |-> ~isPast(clock, date), bubbles |-> FALSE]

\* el.dispatchEvent(new CustomEvent("timeago:render", ...))
dispatch(clock, date) ==
    [type |-> "timeago:render", isPast |-> isPast(clock, date), bubbles |-> FALSE]

\* the outcome of the try block of render once the formatter has returned or
\* thrown r: el.textContent = r; dispatch(date), and with caught the handler
\* catch (e) { console.error(e) }
tryBlock(v, clock, text, date, r, caught) ==
    [ok |-> ~r.threw,
     textContent |-> IF r.threw THEN text ELSE r.text,
     logged  |-> IF r.threw /\ caught THEN 1 ELSE 0,
     events  |-> IF v = "js" /\ ~r.threw THEN <<dispatch(clock, date)>>
                 ELSE << >>,
     thrown  |-> r.threw /\ ~caught]

\* the date render hands to the formatter: index.js parses a string itself
renderDate(v, val) ==
    IF v = "js" /\ val.type = "string" THEN parseISO(val.str) ELSE toDate(val)

\* render without its catch: the formatter's error leaves render
renderUncaught(v, mods, z, clock, loc, text, val) ==
    tryBlock(v, clock, text, renderDate(v, val),
             formatLabel(mods, z, clock, loc, renderDate(v, val)), FALSE)

\* try { ... } catch (e) { console.error(e) }: what one call of render does
\* to the element, the console and the listeners; thrown is an error that
\* leaves render
render(v, mods, z, clock, loc, text, val) ==
    tryBlock(v, clock, text, renderDate(v, val),
             formatLabel(mods, z, clock, loc, renderDate(v, val)), TRUE)

\* the interval of a directive that does not read the "seconds" modifier
intervalDurationFixed(mods) == DefaultIntervalDuration

\* let intervalDuration = 30000; if (modifiers.includes("seconds")) ... = 5000
intervalDuration(mods) ==
    IF includes(mods, "seconds") THEN SecondsIntervalDuration
    ELSE DefaultIntervalDuration

----------------------------------------------------------------------------
(* The host's timers *)

TimeAfter(t, milliseconds) ==
    Time(t.sec + ((t.ms + milliseconds) \div 1000), (t.ms + milliseconds) % 1000)

\* setInterval(() => render(date), period), called at clock, returning id
Timer(id, date, period, clock) ==
    [id |-> id, date |-> date, period |-> period, due |-> TimeAfter(clock, period)]

\* clearInterval(id); clearInterval(undefined) clears nothing
clearInterval(ts, id) == {t \in ts : t.id # id}

----------------------------------------------------------------------------
(* Direct calls of the two formatters,                                     *)
(* formatDistance(laterDate, earlierDate, options) and                     *)
(* formatDistanceStrict(laterDate, earlierDate, options), in the zone of   *)
(* the host.                                                               *)

\* Australia/Sydney around the start of summer time, 2015-10-03T16:00:00Z
Sydney == [before |-> 36000, at |-> 1443888000, after |-> 39600]

FormatZones == {UTC, Berlin, Sydney}

\* the instant the distances are measured from: 2015-01-01T00:00:00Z in UTC,
\* ten seconds before the transition in a zone that has one
BaseInstant(z) == IF z = UTC THEN Time(1420070400, 0) ELSE Time(z.at - 10, 0)

\* the distances of the calls, in whole seconds: around every threshold of
\* the two ladders, and 334, 345, 364, 365, 425, 456 and 639 days
WholeSeconds ==
    {0, 4, 5, 9, 10, 19, 20, 29, 30, 39, 40, 59, 60, 89, 90,
     2669, 2670, 3570, 3599, 3600, 5369, 5370,
     86369, 86370, 86400, 151169, 151170,
     2548800, 2591969, 2591970, 2592000, 5183969, 5183970,
     28857600, 29808000, 31449600, 31536000, 36720000, 39398400, 55209600}

Distances ==
    {Duration(s, 0) : s \in WholeSeconds}
        \cup {Duration(0, 500), Duration(4, 600), Duration(29, 999),
              Duration(59, 500)}

\* the zone records hold one transition: they describe the zone for distances
\* that stay clear of its next one
DistancesIn(z) ==
    IF z = UTC THEN Distances ELSE {d \in Distances : d.sec < 100 * 86400}

\* the instant d after date
InstantAfter(date, d) ==
    Time(date.sec + d.sec + ((date.ms + d.ms) \div 1000), (date.ms + d.ms) % 1000)

Units == {"second", "minute", "hour", "day", "month", "year"}
RoundingMethods == {"floor", "ceil", "round"}

ApproximateOptions ==
    {Options(addSuffix, includeSeconds, Undefined, Undefined, loc) :
        addSuffix \in BOOLEAN, includeSeconds \in BOOLEAN,
        loc \in {Null, customLocale}}

StrictCallOptions ==
    UNION {{Options(addSuffix, FALSE, unit, roundingMethod, loc) :
                unit \in Units \cup {Undefined},
                roundingMethod \in RoundingMethods \cup {Undefined}} :
           addSuffix \in BOOLEAN, loc \in {Null, customLocale}}

Call(fn, laterDate, earlierDate, options) ==
    [fn |-> fn, laterDate |-> laterDate, earlierDate |-> earlierDate,
     options |-> options]

NoInput == Call("none", InvalidDate, InvalidDate,
                Options(FALSE, FALSE, Undefined, Undefined, Null))

\* the pairs of dates of the calls in zone z: a valid date at a distance
\* after the base instant, and an Invalid Date in either place or in both
\* 2014-07-02T00:00:00Z, 183 days before the base instant of UTC
SecondOfJuly2014 == Time(1404259200, 0)

DatePairs(z) ==
    {<<InstantAfter(BaseInstant(z), d), BaseInstant(z)>> : d \in DistancesIn(z)}
        \cup {<<InvalidDate, BaseInstant(z)>>, <<BaseInstant(z), InvalidDate>>,
              <<InvalidDate, InvalidDate>>}
        \cup (IF z = UTC THEN {<<SecondOfJuly2014, BaseInstant(z)>>} ELSE {})

Inputs(z) ==
    {Call("formatDistance", p[1], p[2], o) :
        p \in DatePairs(z), o \in ApproximateOptions}
    \cup {Call("formatDistanceStrict", p[1], p[2], o) :
        p \in DatePairs(z), o \in StrictCallOptions}

\* one call, and what it returned or threw
Returned(z, fn, laterDate, earlierDate, options) ==
    [laterDate |-> laterDate, earlierDate |-> earlierDate,
     result |-> IF fn = "formatDistanceStrict"
                THEN formatDistanceStrict(z, laterDate, earlierDate, options)
                ELSE formatDistance(z, laterDate, earlierDate, options)]

----------------------------------------------------------------------------
(* The directive *)

\* the payload of TimeAgo.configure: whether it has a property locale, and
\* the value of config.locale
Config(has, l) == [hasLocale |-> has, locale |-> l]

\* configResult and magicResult when the last handler was another one
NotConfigured == [called |-> FALSE, config |-> Config(FALSE, JSUndefined),
                  result |-> "none"]
NotCalled == [called |-> FALSE, args |-> << >>, threw |-> FALSE, error |-> "",
              text |-> ""]

\* a handler of the directive returns nothing to configure's or $timeago's caller
NoResults == configResult' = NotConfigured /\ magicResult' = NotCalled

Init ==
    /\ variant \in {"ts", "js"}
    /\ modifiers \in ModifierLists
    /\ zone \in Zones
    /\ phase = "detached"
    /\ value = InitialValue
    /\ interval = 0
    /\ timers = {}
    /\ nextId = 1
    /\ textContent = ""
    /\ last = "none"
    /\ trace = << >>
    /\ events = << >>
    /\ logged = 0
    /\ hostError = FALSE
    /\ visibility = "none"
    /\ now = StartOfClock
    /\ locale = Null
    /\ configResult = NotConfigured
    /\ magicResult = NotCalled
    /\ input = NoInput
    /\ output = << >>

\* the effect callback without its clearInterval: the pending timer stays live
effectCallbackLeaking(date) ==
    LET parsedDate == IF variant = "ts" /\ date.type = "string"
                      THEN DateValue(parseISO(date.str)) ELSE date
    IN
    \E r \in {render(variant, modifiers, zone, now, locale, textContent, parsedDate)} :
    /\ nextId <= MaxTimerId
    /\ textContent' = r.textContent
    /\ logged' = r.logged
    /\ events' = r.events
    /\ hostError' = r.thrown
    /\ timers' = timers \cup
           {Timer(nextId, parsedDate, intervalDuration(modifiers), now)}
    /\ interval' = nextId
    /\ nextId' = nextId + 1
    /\ trace' = <<"render", "setInterval">>

\* evaluateDate(date => { if (interval) clearInterval(interval); render(date);
\* setupInterval(date) }), with the parse of a string before render in index.ts
effectCallback(date) ==
    LET cleared == IF interval # 0 THEN clearInterval(timers, interval) ELSE timers
        parsedDate == IF variant = "ts" /\ date.type = "string"
                      THEN DateValue(parseISO(date.str)) ELSE date
    IN
    \E r \in {render(variant, modifiers, zone, now, locale, textContent, parsedDate)} :
    /\ nextId <= MaxTimerId
    /\ textContent' = r.textContent
    /\ logged' = r.logged
    /\ events' = r.events
    /\ hostError' = r.thrown
    /\ IF r.thrown
       THEN /\ timers' = cleared
            /\ UNCHANGED <<interval, nextId>>
            /\ trace' = (IF interval # 0 THEN <<"clearInterval">> ELSE << >>)
                            \o <<"render">>
       ELSE /\ timers' = cleared \cup
                   {Timer(nextId, parsedDate, intervalDuration(modifiers), now)}
            /\ interval' = nextId
            /\ nextId' = nextId + 1
            /\ trace' = (IF interval # 0 THEN <<"clearInterval">> ELSE << >>)
                            \o <<"render", "setInterval">>

\* the directive callback: the first run of the effect
Attach ==
    /\ phase = "detached"
    /\ effectCallback(value)
    /\ phase' = "attached"
    /\ last' = "attach"
    /\ NoResults
    /\ UNCHANGED <<input, output, variant, modifiers, zone, value, visibility, now, locale>>

\* the bound expression takes the value v and the reactive system re-runs
\* the effect
Effect(v) ==
    /\ phase = "attached"
    /\ value' = v
    /\ effectCallback(v)
    /\ last' = "effect"
    /\ NoResults
    /\ UNCHANGED <<input, output, variant, modifiers, zone, phase, visibility, now, locale>>

\* a tick of the live timer t: render(date) with the date the timer holds
Tick(t) ==
    \E r \in {render(variant, modifiers, zone, now, locale, textContent, t.date)} :
    /\ t \in timers
    /\ compareAsc(now, t.due).sign >= 0
    /\ textContent' = r.textContent
    /\ logged' = r.logged
    /\ events' = r.events
    /\ hostError' = r.thrown
    /\ timers' = (timers \ {t}) \cup {[t EXCEPT !.due = TimeAfter(now, t.period)]}
    /\ trace' = <<"render">>
    /\ last' = "tick"
    /\ NoResults
    /\ UNCHANGED <<input, output, variant, modifiers, zone, phase, value, interval, nextId,
                   visibility, now, locale>>

\* cleanup(() => clearInterval(interval))
Cleanup ==
    /\ phase = "attached"
    /\ phase' = "destroyed"
    /\ timers' = clearInterval(timers, interval)
    /\ trace' = <<"clearInterval">>
    /\ events' = << >>
    /\ logged' = 0
    /\ hostError' = FALSE
    /\ last' = "cleanup"
    /\ NoResults
    /\ UNCHANGED <<input, output, variant, modifiers, zone, value, interval, nextId,
                   textContent, visibility, now, locale>>

\* the IntersectionObserver reports the element as intersecting:
\* evaluateDate(date => { if (!interval) { setupInterval(date); render(date) } })
Visible ==
    \E r \in {render(variant, modifiers, zone, now, locale, textContent, value)} :
    /\ variant = "js"
    /\ phase # "detached"
    /\ visibility' = "visible"
    /\ last' = "visible"
    /\ IF interval = 0
       THEN /\ nextId <= MaxTimerId
            /\ timers' = timers \cup
                   {Timer(nextId, value, intervalDuration(modifiers), now)}
            /\ interval' = nextId
            /\ nextId' = nextId + 1
            /\ textContent' = r.textContent
            /\ logged' = r.logged
            /\ events' = r.events
            /\ hostError' = r.thrown
            /\ trace' = <<"setInterval", "render">>
       ELSE /\ trace' = << >>
            /\ events' = << >>
            /\ logged' = 0
            /\ hostError' = FALSE
            /\ UNCHANGED <<timers, interval, nextId, textContent>>
    /\ NoResults
    /\ UNCHANGED <<input, output, variant, modifiers, zone, phase, value, now, locale>>

\* the IntersectionObserver reports the element as not intersecting:
\* if (interval) { clearInterval(interval); interval = undefined }
Hidden ==
    /\ variant = "js"
    /\ phase # "detached"
    /\ visibility' = "hidden"
    /\ last' = "hidden"
    /\ IF interval # 0
       THEN /\ timers' = clearInterval(timers, interval)
            /\ interval' = 0
            /\ trace' = <<"clearInterval">>
       ELSE /\ trace' = << >>
            /\ UNCHANGED <<timers, interval>>
    /\ events' = << >>
    /\ logged' = 0
    /\ hostError' = FALSE
    /\ NoResults
    /\ UNCHANGED <<input, output, variant, modifiers, zone, phase, value, nextId, textContent,
                   now, locale>>

\* time passes, by these numbers of milliseconds
ClockSteps == {15000}

AdvanceClock ==
    /\ \E step \in ClockSteps : now' = TimeAfter(now, step)
    /\ now'.sec - StartOfClock.sec <= MaxElapsed
    /\ last' = "clock"
    /\ trace' = << >>
    /\ events' = << >>
    /\ logged' = 0
    /\ hostError' = FALSE
    /\ NoResults
    /\ UNCHANGED <<input, output, variant, modifiers, zone, phase, value, interval, timers,
                   nextId, textContent, visibility, locale>>

----------------------------------------------------------------------------
(* TimeAgo.configure *)

Configs == {Config(FALSE, JSUndefined), Config(TRUE, JSUndefined),
            Config(TRUE, Null), Config(TRUE, localeName),
            Config(TRUE, emptyObject), Config(TRUE, customLocale)}

\* a value that is neither undefined, null nor an empty string
truthy(v) == v.type \in {"object", "string"}

\* index.ts: if (config.locale) { locale = config.locale }  return TimeAgo
configureTs(loc, config) ==
    [locale |-> IF truthy(config.locale) THEN config.locale ELSE loc,
     result |-> "TimeAgo"]

\* index.js: if (config.hasOwnProperty("locale") && typeof config.locale
\* === "object") { if (config.locale.hasOwnProperty("formatDistance"))
\* { locale = config.locale } }  return TimeAgo
configureJs(loc, config) ==
    IF config.hasLocale /\ config.locale.type \in {"object", "null"}
    THEN IF config.locale.type = "null"
         THEN [locale |-> loc, result |-> "TypeError"]
         ELSE [locale |-> IF config.locale.formatDistance # "none"
                          THEN config.locale ELSE loc,
               result |-> "TimeAgo"]
    ELSE [locale |-> loc, result |-> "TimeAgo"]

configure(v, loc, config) ==
    IF v = "ts" THEN configureTs(loc, config) ELSE configureJs(loc, config)

\* TimeAgo.configure(config), as in Alpine.plugin(TimeAgo.configure({ locale }))
\* or at any later time: the renders that follow read the new locale
Configure(config) ==
    LET c == configure(variant, locale, config) IN
    /\ locale' = c.locale
    /\ configResult' = [called |-> TRUE, config |-> config, result |-> c.result]
    /\ last' = "configure"
    /\ trace' = << >>
    /\ events' = << >>
    /\ logged' = 0
    /\ hostError' = FALSE
    /\ magicResult' = NotCalled
    /\ UNCHANGED <<input, output, variant, modifiers, zone, phase, value, interval, timers,
                   nextId, textContent, visibility, now>>

----------------------------------------------------------------------------
(* The $timeago magic function *)

\* arguments that are booleans, null or left out
Flags == {"undefined", "null", "false", "true"}

StrictOptions(t, strict, unit, roundingMethod) ==
    [type |-> t, strict |-> strict, unit |-> unit,
     roundingMethod |-> roundingMethod]

NoStrictOptions == StrictOptions("undefined", "undefined", Undefined, Undefined)

StrictOptionsSet ==
    {NoStrictOptions,
     StrictOptions("null", "undefined", Undefined, Undefined),
     StrictOptions("object", "undefined", "minute", "floor"),
     StrictOptions("object", "false", "minute", "floor"),
     StrictOptions("object", "true", Undefined, Undefined),
     StrictOptions("object", "true", "minute", "ceil")}

\* a $timeago that is strict whenever strictOptions is given
timeagoStrictWhenGiven(z, clock, loc, expression, pure, seconds, strictOptions) ==
    LET pure_ == IF pure \in {"undefined", "null"} THEN "false" ELSE pure
        seconds_ == IF seconds \in {"undefined", "null"} THEN "false" ELSE seconds
    IN IF strictOptions.type \notin {"undefined", "null"}
       THEN formatDistanceToNowStrict(z, clock, toDate(expression),
                Options(pure_ # "true", FALSE, strictOptions.unit,
                        strictOptions.roundingMethod, loc))
       ELSE formatDistanceToNow(z, clock, toDate(expression),
                Options(pure_ # "true", seconds_ = "true", Undefined,
                        Undefined, loc))

\* a $timeago whose strict branch leaves locale out of the options, so that
\* the strict labels are in the default locale whatever was configured
timeagoStrictWithoutLocale(z, clock, loc, expression, pure, seconds, strictOptions) ==
    LET pure_ == IF pure \in {"undefined", "null"} THEN "false" ELSE pure
        seconds_ == IF seconds \in {"undefined", "null"} THEN "false" ELSE seconds
    IN IF strictOptions.type \notin {"undefined", "null"}
          /\ strictOptions.strict = "true"
       THEN formatDistanceToNowStrict(z, clock, toDate(expression),
                Options(pure_ # "true", FALSE, strictOptions.unit,
                        strictOptions.roundingMethod, Null))
       ELSE formatDistanceToNow(z, clock, toDate(expression),
                Options(pure_ # "true", seconds_ = "true", Undefined,
                        Undefined, loc))

\* (expression, pure, seconds, strictOptions) => string
timeago(z, clock, loc, expression, pure, seconds, strictOptions) ==
    LET pure_ == IF pure \in {"undefined", "null"} THEN "false" ELSE pure
        seconds_ == IF seconds \in {"undefined", "null"} THEN "false" ELSE seconds
    IN IF strictOptions.type \notin {"undefined", "null"}
          /\ strictOptions.strict = "true"
       THEN formatDistanceToNowStrict(z, clock, toDate(expression),
                Options(pure_ # "true", FALSE, strictOptions.unit,
                        strictOptions.roundingMethod, loc))
       ELSE formatDistanceToNow(z, clock, toDate(expression),
                Options(pure_ # "true", seconds_ = "true", Undefined,
                        Undefined, loc))

\* the calls of $timeago the model makes
MagicCalls ==
    {<<expression, "undefined", "undefined", NoStrictOptions>> :
        expression \in Values}
    \cup {<<DateValue(Time(1445734770, 0)), "true", "true", NoStrictOptions>>,
          <<DateValue(Time(1445734770, 0)), "null", "false",
            StrictOptions("object", "true", "minute", "ceil")>>}

\* a $timeago with the try and catch of render: an error of the formatter is
\* logged and the call returns undefined
MagicCatching(expression, pure, seconds, strictOptions) ==
    \E r \in {timeago(zone, now, locale, expression, pure, seconds, strictOptions)} :
    /\ magicResult' = [called |-> TRUE,
                       args |-> <<expression, pure, seconds, strictOptions>>,
                       threw |-> FALSE, error |-> "", text |-> r.text]
    /\ last' = "magic"
    /\ trace' = << >>
    /\ events' = << >>
    /\ logged' = IF r.threw THEN 1 ELSE 0
    /\ hostError' = FALSE
    /\ configResult' = NotConfigured
    /\ UNCHANGED <<input, output, variant, modifiers, zone, phase, value, interval, timers,
                   nextId, textContent, visibility, now, locale>>

\* a $timeago that writes the label into the element of the binding
MagicWritingElement(expression, pure, seconds, strictOptions) ==
    \E r \in {timeago(zone, now, locale, expression, pure, seconds, strictOptions)} :
    /\ magicResult' = [called |-> TRUE,
                       args |-> <<expression, pure, seconds, strictOptions>>,
                       threw |-> r.threw, error |-> r.error, text |-> r.text]
    /\ textContent' = IF r.threw THEN textContent ELSE r.text
    /\ last' = "magic"
    /\ trace' = << >>
    /\ events' = << >>
    /\ logged' = 0
    /\ hostError' = FALSE
    /\ configResult' = NotConfigured
    /\ UNCHANGED <<input, output, variant, modifiers, zone, phase, value, interval, timers,
                   nextId, visibility, now, locale>>

Magic(expression, pure, seconds, strictOptions) ==
    \E r \in {timeago(zone, now, locale, expression, pure, seconds, strictOptions)} :
    /\ magicResult' = [called |-> TRUE,
                       args |-> <<expression, pure, seconds, strictOptions>>,
                       threw |-> r.threw, error |-> r.error, text |-> r.text]
    /\ last' = "magic"
    /\ trace' = << >>
    /\ events' = << >>
    /\ logged' = 0
    /\ hostError' = FALSE
    /\ configResult' = NotConfigured
    /\ UNCHANGED <<input, output, variant, modifiers, zone, phase, value, interval, timers,
                   nextId, textContent, visibility, now, locale>>

----------------------------------------------------------------------------

Next ==
    \/ Attach
    \/ \E v \in Values : Effect(v)
    \/ \E t \in timers : Tick(t)
    \/ Cleanup
    \/ Visible
    \/ Hidden
    \/ AdvanceClock
    \/ \E config \in Configs : Configure(config)
    \/ \E call \in MagicCalls :
            Magic(call[1], call[2], call[3], call[4])

Spec == Init /\ [][Next]_vars

----------------------------------------------------------------------------
(* The formatters called directly: no directive is attached; a caller      *)
(* holds two dates and an options object, calls the formatter, then calls  *)
(* it again with the two dates exchanged.                                  *)

FormatInit ==
    /\ variant = "ts"
    /\ modifiers = << >>
    /\ zone \in FormatZones
    /\ phase = "detached"
    /\ value = InitialValue
    /\ interval = 0
    /\ timers = {}
    /\ nextId = 1
    /\ textContent = ""
    /\ last = "none"
    /\ trace = << >>
    /\ events = << >>
    /\ logged = 0
    /\ hostError = FALSE
    /\ visibility = "none"
    /\ now = BaseInstant(zone)
    /\ locale = Null
    /\ configResult = NotConfigured
    /\ magicResult = NotCalled
    /\ input \in Inputs(zone)
    /\ output = << >>

\* formatDistance(laterDate, earlierDate, options), or the strict one
Format ==
    /\ input.fn # "none"
    /\ Len(output) = 0
    /\ output' = <<Returned(zone, input.fn, input.laterDate, input.earlierDate,
                            input.options)>>
    /\ UNCHANGED <<input, variant, modifiers, zone, phase, value, interval,
                   timers, nextId, textContent, last, trace, events, logged,
                   hostError, visibility, now, locale, configResult,
                   magicResult>>

\* the same call with the two dates exchanged
FormatExchanged ==
    /\ input.fn # "none"
    /\ Len(output) = 1
    /\ output' = Append(output,
                        Returned(zone, input.fn, input.earlierDate,
                                 input.laterDate, input.options))
    /\ UNCHANGED <<input, variant, modifiers, zone, phase, value, interval,
                   timers, nextId, textContent, last, trace, events, logged,
                   hostError, visibility, now, locale, configResult,
                   magicResult>>

FormatNext == Format \/ FormatExchanged

FormatSpec == FormatInit /\ [][FormatNext]_vars

----------------------------------------------------------------------------
(* Properties *)

\* the date a Date or string of the bound expression stands for
DateOf(v) == IF v.type = "string" THEN parseISO(v.str) ELSE v.date

\* the label the directive shows for date at the current clock, and whether
\* there is none because the formatter failed
LabelFails(date) == formatLabel(modifiers, zone, now, locale, date).threw
LabelOf(date) == formatLabel(modifiers, zone, now, locale, date).text

\* C1: every re-evaluation of the binding, the first included, first cancels
\* the pending timer if there is one, then renders the label of the newly
\* evaluated value, then arms a new repeating timer; when it has completed
\* exactly one timer of the binding is armed and it renders the new value.
C1_ReevaluationCancelsRendersArms ==
    [][last' \in {"attach", "effect"} =>
        /\ trace' = (IF timers # {} THEN <<"clearInterval">> ELSE << >>)
                        \o <<"render", "setInterval">>
        /\ ~LabelFails(DateOf(value))' => textContent' = LabelOf(DateOf(value))'
        /\ Cardinality(timers') = 1
        /\ \A t \in timers' : /\ t.id = interval'
                              /\ t \notin timers
                              /\ DateOf(t.date) = DateOf(value')
      ]_vars

\* a re-evaluation that found a timer pending, cancelled it, rendered the new
\* value and armed another
C1_Witness ==
    /\ last = "effect"
    /\ trace = <<"clearInterval", "render", "setInterval">>
    /\ value = StringValue("2015-10-25T00:59:50.500Z")
    /\ textContent = "in less than a minute"
    /\ Cardinality(timers) = 1
    /\ interval = 2

\* C2: once the teardown of a binding has run, no timer of the binding is
\* live, whatever events follow (visibility notifications included).
C2_NoTimerAfterTeardown == phase = "destroyed" => timers = {}

Has(seq, x) == \E i \in 1..Len(seq) : seq[i] = x

\* the last handler rendered, and what it rendered was an invalid date
RenderedInvalidDate ==
    /\ Has(trace, "render")
    /\ last \in {"attach", "effect", "visible"} => ~DateOf(value).valid
    /\ last = "tick" => \A t \in timers : ~DateOf(t.date).valid

\* C3: a render of an invalid date, from a re-evaluation or from a tick, logs
\* the error, leaves the text of the element as it was, lets no error reach
\* the host, and leaves the timer armed as after a successful render.
C3_InvalidDateIsLoggedAndSuppressed ==
    [][RenderedInvalidDate' =>
        /\ logged' = 1
        /\ textContent' = textContent
        /\ hostError' = FALSE
        /\ Cardinality(timers') = 1
        /\ \A t \in timers' :
              /\ t.id = interval'
              /\ t.period = intervalDuration(modifiers)
              /\ t.due = TimeAfter(now', t.period)
      ]_vars

\* a tick rendered "not-a-date": the error was logged, the label of the
\* earlier value is still shown and the timer is still armed
C3_Witness ==
    /\ last = "tick"
    /\ value = StringValue("not-a-date")
    /\ logged = 1
    /\ textContent = "less than a minute ago"
    /\ timers # {}

\* C4: with visibility gating, while the last notification reported the
\* element as not visible the binding has no live timer and does not render.
C4_HiddenMeansSuspended ==
    (variant = "js" /\ phase = "attached" /\ visibility = "hidden")
        => (timers = {} /\ ~Has(trace, "render"))

\* C5: with visibility gating, every transition of an attached element from
\* not visible to visible renders the current value exactly once and leaves
\* exactly one timer armed.
C5_VisibleRendersOnce ==
    [][(variant = "js" /\ phase = "attached" /\ visibility = "hidden"
            /\ last' = "visible") =>
        /\ Cardinality({i \in 1..Len(trace') : trace'[i] = "render"}) = 1
        /\ Cardinality(timers') = 1
        /\ \A t \in timers' : DateOf(t.date) = DateOf(value')
      ]_vars

\* C6: every timer a binding arms has period 5000 ms when the modifier list
\* contains "seconds" and 30000 ms otherwise, whatever the other modifiers.
C6_TimerPeriod ==
    \A t \in timers :
        t.period = IF \E i \in 1..Len(modifiers) : modifiers[i] = "seconds"
                   THEN 5000 ELSE 30000

\* a timer of 5000 ms armed on becoming visible, beside strict modifiers
C6_Witness ==
    /\ last = "visible"
    /\ Has(trace, "setInterval")
    /\ Has(modifiers, "strict")
    /\ \E t \in timers : t.period = 5000

\* C7: a call of $timeago returns the label of the given date and leaves all
\* other state as it was: no timer, no binding, no element text, no event,
\* no change of the locale.
C7_MagicChangesNothing ==
    [][last' = "magic" =>
        /\ magicResult'.called
        /\ LET a == magicResult'.args
               r == formatLabel(<< >>, zone, now, locale, DateOf(a[1]))
           IN (a[2] = "undefined" /\ a[3] = "undefined" /\ a[4] = NoStrictOptions)
                 => (magicResult'.threw = r.threw /\ magicResult'.text = r.text)
        /\ UNCHANGED <<phase, value, interval, timers, nextId, textContent,
                       visibility, locale, now>>
        /\ events' = << >>
        /\ trace' = << >>
      ]_vars

\* $timeago returned a label beside a live binding that shows another one
C7_Witness ==
    /\ last = "magic"
    /\ ~magicResult.threw
    /\ magicResult.text = "in less than a minute"
    /\ phase = "attached"
    /\ timers # {}
    /\ textContent = "less than a minute ago"

\* C8: a configure call whose payload has no locale, or whose locale is an
\* object without formatDistance, leaves the active locale as it was and
\* returns the plugin registration function.
C8_LocaleWithoutFormatDistanceIsIgnored ==
    [][(last' = "configure"
          /\ \/ ~configResult'.config.hasLocale
             \/ /\ configResult'.config.locale.type = "object"
                /\ configResult'.config.locale.formatDistance = "none")
        => (locale' = locale /\ configResult'.result = "TimeAgo")
      ]_vars

\* C9: configure never raises: for a payload whose locale is absent, null,
\* not an object, or an object without formatDistance, the call completes,
\* changes nothing and returns the plugin registration function.
C9_ConfigureNeverRaises ==
    [][(last' = "configure"
          /\ \/ ~configResult'.config.hasLocale
             \/ configResult'.config.locale.type \in {"undefined", "null", "string"}
             \/ configResult'.config.locale.formatDistance = "none")
        => /\ configResult'.result # "TypeError"
           /\ configResult'.result = "TimeAgo"
           /\ locale' = locale
      ]_vars

\* date is a valid date before clock
Earlier(date, clock) ==
    /\ date.valid
    /\ \/ date.sec < clock.sec
       \/ date.sec = clock.sec /\ date.ms < clock.ms

\* C10: in the event-emitting variant every successful render is followed by
\* exactly one non-bubbling "timeago:render" event whose isPast is true
\* exactly when the bound date is earlier than now; a failed render and a
\* handler that does not render emit none.
C10_OneRenderEventPerRender ==
    variant = "js" =>
        IF Has(trace, "render") /\ logged = 0
        THEN \E t \in timers :
                events = <<[type |-> "timeago:render",
                            isPast |-> Earlier(DateOf(t.date), now),
                            bubbles |-> FALSE]>>
        ELSE events = << >>

\* a tick found the bound date, once in the future, in the past
C10_Witness ==
    /\ variant = "js"
    /\ last = "tick"
    /\ value = StringValue("2015-10-25T00:59:50.500Z")
    /\ Len(events) = 1
    /\ events[1].isPast
    /\ textContent = "less than 5 seconds"

----------------------------------------------------------------------------
(* The formatters, under FormatSpec *)

\* the direct calls made so far
Calls == {output[i] : i \in 1..Len(output)}

\* C11: formatDistance and formatDistanceStrict raise the Invalid-Input error
\* (RangeError: Invalid time value) and return no string whenever either of
\* the two dates is invalid, in either place and under every options object.
C11_InvalidInstantRaises ==
    \A c \in Calls :
        (~c.laterDate.valid \/ ~c.earlierDate.valid)
            => /\ c.result.threw
               /\ c.result.error = "RangeError: Invalid time value"
               /\ c.result.text = ""

\* the strict formatter, with a forced unit and the application's locale, was
\* called with the Invalid Date second and then first, and threw both times
C11_Witness ==
    /\ input.fn = "formatDistanceStrict"
    /\ input.options.unit = "month"
    /\ input.options.locale = customLocale
    /\ Len(output) = 2
    /\ output[1].laterDate.valid /\ ~output[1].earlierDate.valid
    /\ ~output[2].laterDate.valid /\ output[2].earlierDate.valid
    /\ output[1].result.threw /\ output[2].result.threw

\* the earlier and the later of the two dates of a call, whatever their places
EarlierOf(c) ==
    IF c.laterDate.sec < c.earlierDate.sec
       \/ (c.laterDate.sec = c.earlierDate.sec /\ c.laterDate.ms < c.earlierDate.ms)
    THEN c.laterDate ELSE c.earlierDate
LaterOf(c) == IF EarlierOf(c) = c.laterDate THEN c.earlierDate ELSE c.laterDate

\* the distance of a call, as whole seconds and milliseconds 0..999
Distance(c) ==
    [sec |-> LaterOf(c).sec - EarlierOf(c).sec
                + ((LaterOf(c).ms - EarlierOf(c).ms) \div 1000),
     ms  |-> (LaterOf(c).ms - EarlierOf(c).ms) % 1000]
DistanceSeconds(c) == Distance(c).sec

\* s whole seconds and no milliseconds
Seconds(s) == [sec |-> s, ms |-> 0]

\* the seconds by which the UTC offset of the zone fell between the two dates
OffsetFall(c) ==
    (IF EarlierOf(c).sec < zone.at THEN zone.before ELSE zone.after)
        - (IF LaterOf(c).sec < zone.at THEN zone.before ELSE zone.after)

\* the rounded minute count of a call: the whole seconds between the local
\* times of the two dates over 60, rounded to the nearest integer, halves up
RoundedMinutes(c) == (2 * (DistanceSeconds(c) - OffsetFall(c)) + 60) \div 120

\* n / k rounded to the nearest integer, halves up
Nearest(n, k) == (2 * n + k) \div (2 * k)

\* a call of the approximate formatter on valid dates that shows the token
\* and the count: the application's locale, no suffix
ShowsToken(c) ==
    /\ c.laterDate.valid /\ c.earlierDate.valid
    /\ input.options.locale = customLocale
    /\ ~input.options.addSuffix

TokenAndCount(token, count) == token \o ":" \o ToString(count)

\* the token and count the ladder of C12 gives for m rounded minutes
LadderOfMinutes(m) ==
    CASE m = 0 -> TokenAndCount("lessThanXMinutes", 1)
      [] m = 1 -> TokenAndCount("xMinutes", 1)
      [] m \in 2..44 -> TokenAndCount("xMinutes", m)
      [] m \in 45..89 -> TokenAndCount("aboutXHours", 1)
      [] m \in 90..1439 -> TokenAndCount("aboutXHours", Nearest(m, 60))
      [] m \in 1440..2519 -> TokenAndCount("xDays", 1)
      [] m \in 2520..43199 -> TokenAndCount("xDays", Nearest(m, 1440))
      [] m \in 43200..86399 -> TokenAndCount("aboutXMonths", Nearest(m, 43200))

\* C12: approximate mode, includeSeconds off: for a rounded minute count m
\* of 0..86399 the token and count follow from m alone by the lower-inclusive
\* thresholds 1, 2, 45, 90, 1440, 2520, 43200; exactly 30 seconds are
\* "1 minute" and 29 seconds "less than a minute".
C12_ApproximateLadder ==
    \A c \in Calls :
        (input.fn = "formatDistance" /\ ~input.options.includeSeconds
         /\ c.laterDate.valid /\ c.earlierDate.valid)
        => /\ (ShowsToken(c) /\ RoundedMinutes(c) \in 0..86399)
                => c.result = Return(LadderOfMinutes(RoundedMinutes(c)))
           /\ (input.options.locale = Null /\ ~input.options.addSuffix
               /\ OffsetFall(c) = 0 /\ Distance(c) = Seconds(30))
                => c.result = Return("1 minute")
           /\ (input.options.locale = Null /\ ~input.options.addSuffix
               /\ OffsetFall(c) = 0 /\ Distance(c) = Seconds(29))
                => c.result = Return("less than a minute")

\* a distance of 2519.5 minutes, rounded to the threshold 2520, gave 2 days
C12_Witness ==
    /\ input.fn = "formatDistance"
    /\ ~input.options.includeSeconds
    /\ Len(output) = 1
    /\ ShowsToken(output[1])
    /\ Distance(output[1]) = Seconds(151170)
    /\ RoundedMinutes(output[1]) = 2520
    /\ output[1].result = Return("xDays:2")

\* the token and count the seconds ladder of C13 gives for s whole seconds
LadderOfSeconds(s) ==
    CASE s < 5  -> TokenAndCount("lessThanXSeconds", 5)
      [] s \in 5..9 -> TokenAndCount("lessThanXSeconds", 10)
      [] s \in 10..19 -> TokenAndCount("lessThanXSeconds", 20)
      [] s \in 20..39 -> TokenAndCount("halfAMinute", 0)
      [] s \in 40..59 -> TokenAndCount("lessThanXMinutes", 1)
      [] s \in 60..89 -> TokenAndCount("xMinutes", 1)

\* C13: approximate mode, includeSeconds on: for a rounded minute count
\* below 2 the token follows from the whole seconds s of the distance
\* (s < 5, < 10, < 20, < 40, < 60, 60 up to 90); for a rounded minute count
\* of 2 or more the label is the one given without includeSeconds.
C13_IncludeSecondsLadder ==
    \A c \in Calls :
        (input.fn = "formatDistance" /\ input.options.includeSeconds
         /\ c.laterDate.valid /\ c.earlierDate.valid)
        => /\ (ShowsToken(c) /\ RoundedMinutes(c) < 2 /\ DistanceSeconds(c) < 90)
                => c.result = Return(LadderOfSeconds(DistanceSeconds(c)))
           /\ RoundedMinutes(c) >= 2
                => c.result =
                     formatDistance(zone, c.laterDate, c.earlierDate,
                         [input.options EXCEPT !.includeSeconds = FALSE])

\* 59.5 seconds with includeSeconds: 59 whole seconds, less than a minute
C13_Witness ==
    /\ input.fn = "formatDistance"
    /\ input.options.includeSeconds
    /\ Len(output) = 1
    /\ ShowsToken(output[1])
    /\ Distance(output[1]) = [sec |-> 59, ms |-> 500]
    /\ output[1].result = Return("lessThanXMinutes:1")

\* the whole calendar months from the earlier to the later date of a call:
\* the months between their local calendar months, less one when the later
\* date has not reached the day and time of day of the earlier one
WholeMonths(c) ==
    LET e == LocalFields(zone, EarlierOf(c))
        l == LocalFields(zone, LaterOf(c))
        reached == \/ l.day > e.day
                   \/ l.day = e.day /\ l.secOfDay > e.secOfDay
                   \/ l.day = e.day /\ l.secOfDay = e.secOfDay /\ l.ms >= e.ms
    IN (l.year - e.year) * 12 + (l.month - e.month) - (IF reached THEN 0 ELSE 1)

\* the token and count the ladder of C14 gives for m rounded minutes and
\* months whole calendar months
LadderOfMonths(m, months) ==
    IF months < 12 THEN TokenAndCount("xMonths", Nearest(m, 43200))
    ELSE IF months % 12 < 3 THEN TokenAndCount("aboutXYears", months \div 12)
    ELSE IF months % 12 < 9 THEN TokenAndCount("overXYears", months \div 12)
    ELSE TokenAndCount("almostXYears", (months \div 12) + 1)

\* C14: approximate mode, 86400 rounded minutes or more, M whole calendar
\* months: M < 12 gives xMonths(round(minutes / 43200)); otherwise with
\* years = M div 12 and r = M mod 12, r < 3 gives aboutXYears(years),
\* r < 9 overXYears(years), else almostXYears(years + 1).
C14_MonthsAndYearsLadder ==
    \A c \in Calls :
        (input.fn = "formatDistance" /\ ShowsToken(c)
         /\ RoundedMinutes(c) >= 86400)
        => c.result = Return(LadderOfMonths(RoundedMinutes(c), WholeMonths(c)))

\* 2015-01-01 and 2016-10-01: 21 whole months are almost 2 years
C14_Witness ==
    /\ input.fn = "formatDistance"
    /\ zone = UTC
    /\ Len(output) = 1
    /\ ShowsToken(output[1])
    /\ Distance(output[1]) = Seconds(55209600)
    /\ WholeMonths(output[1]) = 21
    /\ output[1].result = Return("almostXYears:2")

\* the first date of a call is later than the second
FirstIsLater(c) ==
    \/ c.laterDate.sec > c.earlierDate.sec
    \/ c.laterDate.sec = c.earlierDate.sec /\ c.laterDate.ms > c.earlierDate.ms

StartsWithIn(t) == Len(t) >= 3 /\ SubSeq(t, 1, 3) = "in "
EndsWithAgo(t) == Len(t) >= 4 /\ SubSeq(t, Len(t) - 3, Len(t)) = " ago"

\* the label of the same call without addSuffix
Unsuffixed(c) ==
    Returned(zone, input.fn, c.laterDate, c.earlierDate,
             [input.options EXCEPT !.addSuffix = FALSE]).result.text

\* C15: with addSuffix the label is "<text> ago" when the first date is not
\* later than the second (equal dates included) and "in <text>" when it is
\* later; without addSuffix it is <text> with neither; in both modes.
C15_SuffixByDirection ==
    \A c \in Calls :
        (input.options.locale = Null /\ c.laterDate.valid /\ c.earlierDate.valid)
        => IF input.options.addSuffix
           THEN IF FirstIsLater(c)
                THEN /\ c.result.text = "in " \o Unsuffixed(c)
                     /\ ~EndsWithAgo(c.result.text)
                ELSE /\ c.result.text = Unsuffixed(c) \o " ago"
                     /\ ~StartsWithIn(c.result.text)
           ELSE /\ ~c.result.threw
                /\ ~StartsWithIn(c.result.text)
                /\ ~EndsWithAgo(c.result.text)

\* the strict formatter on two equal dates, with addSuffix: "0 seconds ago"
C15_Witness ==
    /\ input.fn = "formatDistanceStrict"
    /\ input.options.addSuffix
    /\ input.options.unit = Undefined
    /\ input.options.locale = Null
    /\ Len(output) = 1
    /\ output[1].laterDate.valid
    /\ output[1].laterDate = output[1].earlierDate
    /\ output[1].result = Return("0 seconds ago")

\* formatDistance was called on two different valid dates with addSuffix and
\* the default locale, and then with the dates exchanged
CalledBothWays ==
    /\ input.fn = "formatDistance"
    /\ input.options.addSuffix
    /\ input.options.locale = Null
    /\ Len(output) = 2
    /\ output[1].laterDate.valid /\ output[1].earlierDate.valid
    /\ output[1].laterDate # output[1].earlierDate

\* t without its first three characters, and without its last four
AfterIn(t) == SubSeq(t, 4, Len(t))
BeforeAgo(t) == SubSeq(t, 1, Len(t) - 4)

\* C16 as stated: for a later than b, formatDistance(a, b) with addSuffix
\* gives "X ago" and formatDistance(b, a) gives "in X", with the same X.
C16_LaterFirstGivesAgo ==
    (CalledBothWays /\ FirstIsLater(output[1]))
        => /\ EndsWithAgo(output[1].result.text)
           /\ output[2].result.text = "in " \o BeforeAgo(output[1].result.text)

\* C16 as amended: for a later than b, formatDistance(a, b) with addSuffix
\* gives "in X" and formatDistance(b, a) gives "X ago", with the same
\* magnitude text X in both.
C16_SymmetricUpToSuffix ==
    CalledBothWays
        => IF FirstIsLater(output[1])
           THEN /\ StartsWithIn(output[1].result.text)
                /\ output[2].result.text = AfterIn(output[1].result.text) \o " ago"
           ELSE /\ StartsWithIn(output[2].result.text)
                /\ output[1].result.text = AfterIn(output[2].result.text) \o " ago"

\* 2016-01-01 against 2015-01-01 is "in about 1 year"; exchanged, it is
\* "about 1 year ago"
C16_Witness ==
    /\ CalledBothWays
    /\ zone = UTC
    /\ ~input.options.includeSeconds
    /\ FirstIsLater(output[1])
    /\ Distance(output[1]) = Seconds(31536000)
    /\ output[1].result = Return("in about 1 year")
    /\ output[2].result = Return("about 1 year ago")

\* a call of the strict formatter on valid dates
StrictCall(c) ==
    /\ input.fn = "formatDistanceStrict"
    /\ c.laterDate.valid /\ c.earlierDate.valid

\* the distance of a call in whole seconds, DST-corrected: between the local
\* times of the two dates
CorrectedSeconds(c) == DistanceSeconds(c) - OffsetFall(c)

\* the unit the thresholds of C17 give: on the minutes of the distance up to
\* hour, on the DST-corrected minutes from day on
UnitByThresholds(c) ==
    IF DistanceSeconds(c) < 1 * 60 THEN "second"
    ELSE IF DistanceSeconds(c) < 60 * 60 THEN "minute"
    ELSE IF DistanceSeconds(c) < 1440 * 60 THEN "hour"
    ELSE IF CorrectedSeconds(c) < 43200 * 60 THEN "day"
    ELSE IF CorrectedSeconds(c) < 525600 * 60 THEN "month"
    ELSE "year"

TokenOfUnit(unit) ==
    CASE unit = "second" -> "xSeconds"
      [] unit = "minute" -> "xMinutes"
      [] unit = "hour"   -> "xHours"
      [] unit = "day"    -> "xDays"
      [] unit = "month"  -> "xMonths"
      [] unit = "year"   -> "xYears"

StartsWith(t, prefix) ==
    Len(t) >= Len(prefix) /\ SubSeq(t, 1, Len(prefix)) = prefix

\* the label of c counts in the unit
CountsIn(c, unit) == StartsWith(c.result.text, TokenOfUnit(unit) \o ":")

\* C17: in strict mode without a forced unit the unit is chosen by the
\* thresholds on the distance in minutes (below 1 second, below 60 minute,
\* below 1440 hour, below 43200 DST-corrected day, below 525600 DST-corrected
\* month, else year), the twelve months that are written as one year apart;
\* a forced unit is used for every distance; a date 525600 minutes ahead
\* with addSuffix is "in 1 year".
C17_UnitByThresholds ==
    \A c \in Calls :
        StrictCall(c) =>
            /\ (ShowsToken(c) /\ input.options.unit = Undefined)
                 => \/ CountsIn(c, UnitByThresholds(c))
                    \/ /\ UnitByThresholds(c) = "month"
                       /\ c.result.text = TokenAndCount("xYears", 1)
            /\ (ShowsToken(c) /\ input.options.unit # Undefined)
                 => CountsIn(c, input.options.unit)
            /\ (/\ input.options.unit = Undefined
                /\ input.options.addSuffix
                /\ input.options.locale = Null
                /\ FirstIsLater(c)
                /\ Distance(c) = Seconds(525600 * 60)
                /\ OffsetFall(c) = 0)
                 => c.result = Return("in 1 year")

\* thirty days that end after the clocks of Berlin went back are 43140
\* DST-corrected minutes, and are counted in days
C17_Witness ==
    /\ Len(output) = 1
    /\ StrictCall(output[1])
    /\ ShowsToken(output[1])
    /\ input.options.unit = Undefined
    /\ input.options.roundingMethod = Undefined
    /\ zone = Berlin
    /\ Distance(output[1]) = Seconds(43200 * 60)
    /\ UnitByThresholds(output[1]) = "day"
    /\ output[1].result.text = TokenAndCount("xDays", 30)

\* the seconds in one unit
SecondsIn(unit) ==
    CASE unit = "second" -> 1
      [] unit = "minute" -> 60
      [] unit = "hour"   -> 60 * 60
      [] unit = "day"    -> 1440 * 60
      [] unit = "month"  -> 43200 * 60
      [] unit = "year"   -> 525600 * 60

\* the unit of a strict call: the forced one, or the one of the thresholds
ChosenUnit(c) ==
    IF input.options.unit = Undefined THEN UnitByThresholds(c)
    ELSE input.options.unit

\* the whole seconds of the distance as the unit measures it: DST-corrected
\* for day, month and year
MeasuredSeconds(c, unit) ==
    IF unit \in {"day", "month", "year"} THEN CorrectedSeconds(c)
    ELSE DistanceSeconds(c)

\* (s seconds and ms milliseconds) / (k seconds), rounded by the method
RoundedBy(method, s, ms, k) ==
    LET whole == s \div k
        rest == s % k
        exact == rest = 0 /\ ms = 0
        half == 2 * rest >= k \/ (2 * rest = k - 1 /\ 2 * ms >= 1000)
    IN CASE method = "floor" -> whole
         [] method = "ceil"  -> IF exact THEN whole ELSE whole + 1
         [] method = "round" -> IF half THEN whole + 1 ELSE whole

\* the magnitude C18 gives a strict call whose rounding method is method
MagnitudeBy(c, method) ==
    RoundedBy(method, MeasuredSeconds(c, ChosenUnit(c)), Distance(c).ms,
              SecondsIn(ChosenUnit(c)))

\* modifiers and $timeago options that select no rounding method
RoundingUnselected ==
    {<<"strict">>, <<"strict", "rounding">>, <<"strict", "rounding", "nearest">>}
StrictOptionsUnselected == StrictOptions("object", "true", Undefined, Undefined)

\* C18: in strict mode the magnitude is the distance in the chosen unit
\* rounded with the selected method, and with Math.round (to the nearest
\* integer, halves up) when none is selected: roundingMethod left out, no
\* "rounding" modifier, a value that is not a method, or no roundingMethod in
\* the options of $timeago.  Twelve auto-selected months are written 1 year.
C18_RoundedWithSelectedMethod ==
    \A c \in Calls :
        StrictCall(c) =>
            /\ ShowsToken(c) =>
                 LET method == IF input.options.roundingMethod = Undefined
                               THEN "round" ELSE input.options.roundingMethod
                     magnitude == MagnitudeBy(c, method)
                 IN \/ c.result.text =
                          TokenAndCount(TokenOfUnit(ChosenUnit(c)), magnitude)
                    \/ /\ input.options.unit = Undefined
                       /\ ChosenUnit(c) = "month" /\ magnitude = 12
                       /\ c.result.text = TokenAndCount("xYears", 1)
            /\ input.options = Options(TRUE, FALSE, Undefined, "round", Null) =>
                 /\ \A mods \in RoundingUnselected :
                        formatLabel(mods, zone, c.earlierDate, Null, c.laterDate)
                            = c.result
                 /\ timeago(zone, c.earlierDate, Null, DateValue(c.laterDate),
                            "undefined", "undefined", StrictOptionsUnselected)
                        = c.result

\* 90 seconds in minutes, no method selected: 2 minutes
C18_Witness ==
    /\ Len(output) = 1
    /\ StrictCall(output[1])
    /\ ShowsToken(output[1])
    /\ input.options.unit = "minute"
    /\ input.options.roundingMethod = Undefined
    /\ Distance(output[1]) = Seconds(90)
    /\ output[1].result.text = TokenAndCount("xMinutes", 2)

\* the rounding method of a strict call: Math.round when none is given
MethodOf(options) ==
    IF options.roundingMethod = Undefined THEN "round" ELSE options.roundingMethod

\* a strict call in the default locale without suffix whose unit, forced or
\* auto-selected, is month and whose rounded month count is 12
TwelveMonths(c) ==
    /\ StrictCall(c)
    /\ input.options.locale = Null
    /\ ~input.options.addSuffix
    /\ ChosenUnit(c) = "month"
    /\ MagnitudeBy(c, MethodOf(input.options)) = 12

\* C19: in strict mode an auto-selected unit month with a rounded month count
\* of exactly 12 is written "1 year", never "12 months"; with the unit forced
\* to "month" the same distance is "12 months"; with an unforced unit no
\* distance is written "12 months", whatever the rounding method.
C19_TwelveMonthsAreOneYear ==
    \A c \in Calls :
        /\ (TwelveMonths(c) /\ input.options.unit = Undefined)
             => /\ c.result = Return("1 year")
                /\ formatDistanceStrict(zone, c.laterDate, c.earlierDate,
                                        [input.options EXCEPT !.unit = "month"])
                       = Return("12 months")
        /\ (TwelveMonths(c) /\ input.options.unit = "month")
             => c.result = Return("12 months")
        /\ (StrictCall(c) /\ input.options.unit = Undefined)
             => c.result.text \notin
                    {"12 months", "12 months ago", "in 12 months",
                     "xMonths:12", "+xMonths:12", "-xMonths:12"}

\* 345 days are 11.5 months: 12 when rounded, and written "1 year"
C19_Witness ==
    /\ Len(output) = 1
    /\ TwelveMonths(output[1])
    /\ input.options.unit = Undefined
    /\ input.options.roundingMethod = Undefined
    /\ Distance(output[1]) = Seconds(345 * 86400)
    /\ output[1].result = Return("1 year")

\* the labels of the documented ranges: 0..59 seconds, 1..59 minutes,
\* 1..23 hours, 1..29 days, 1..11 months
LabelsInRange ==
    {TokenAndCount("xSeconds", n) : n \in 0..59}
        \cup {TokenAndCount("xMinutes", n) : n \in 1..59}
        \cup {TokenAndCount("xHours", n) : n \in 1..23}
        \cup {TokenAndCount("xDays", n) : n \in 1..29}
        \cup {TokenAndCount("xMonths", n) : n \in 1..11}

\* a label of 1 year or more
YearsInRange(t) ==
    /\ StartsWith(t, "xYears:")
    /\ ~StartsWith(t, "xYears:-")
    /\ t # TokenAndCount("xYears", 0)

\* C20: in strict mode with an auto-selected unit, for every distance, every
\* difference of UTC offsets between the two dates and every rounding method
\* (none, floor, ceil, round), the magnitude is inside the documented range
\* of its unit: 0..59 seconds, 1..59 minutes, 1..23 hours, 1..29 days,
\* 1..11 months, 1 or more years.
C20_MagnitudeInDocumentedRange ==
    \A c \in Calls :
        (StrictCall(c) /\ ShowsToken(c) /\ input.options.unit = Undefined)
            => \/ c.result.text \in LabelsInRange
               \/ YearsInRange(c.result.text)


----------------------------------------------------------------------------
(* Renders of the directive under every short modifier list: the directive *)
(* is attached once to an element whose attribute carries the list.        *)

\* the longest modifier list that is tried
MaxModifiers == 4

\* the words of a modifier list: the names the directive knows, a unit, a
\* rounding method, and a word that is neither
ModifierWords == {"strict", "unit", "rounding", "minute", "ceil", "fortnight",
                  "seconds"}

ModifierListsUpTo(n) == UNION {[1..k -> ModifierWords] : k \in 0..n}

\* bound dates 10 s and 40.3 s before the start of the clock
RenderedValues == {DateValue(Time(1445734770, 0)), DateValue(Time(1445734739, 700))}

RenderInit ==
    /\ variant \in {"ts", "js"}
    /\ modifiers \in ModifierListsUpTo(MaxModifiers)
    /\ zone \in Zones
    /\ phase = "detached"
    /\ value \in RenderedValues
    /\ interval = 0
    /\ timers = {}
    /\ nextId = 1
    /\ textContent = ""
    /\ last = "none"
    /\ trace = << >>
    /\ events = << >>
    /\ logged = 0
    /\ hostError = FALSE
    /\ visibility = "none"
    /\ now = StartOfClock
    /\ locale = Null
    /\ configResult = NotConfigured
    /\ magicResult = NotCalled
    /\ input = NoInput
    /\ output = << >>

RenderNext == Attach

RenderSpec == RenderInit /\ [][RenderNext]_vars


----------------------------------------------------------------------------
(* $timeago called with every combination of its optional arguments, while *)
(* the clock runs; no directive is attached.                               *)

EveryMagicCall ==
    {<<DateValue(Time(1445734770, 0)), pure, seconds, strictOptions>> :
        pure \in Flags, seconds \in Flags, strictOptions \in StrictOptionsSet}

MagicNext ==
    \/ AdvanceClock
    \/ \E call \in EveryMagicCall :
            Magic(call[1], call[2], call[3], call[4])

MagicSpec == Init /\ [][MagicNext]_vars

----------------------------------------------------------------------------
(* Scenarios and the entry points, under FormatSpec and Spec *)

\* a call of the approximate formatter on 2014-07-02T00:00:00Z against
\* 2015-01-01T00:00:00Z with addSuffix, as a render without modifiers makes it
HalfYearBack(c) ==
    /\ input.fn = "formatDistance"
    /\ input.options = Options(TRUE, FALSE, Undefined, Undefined, Null)
    /\ zone = UTC
    /\ c.laterDate = SecondOfJuly2014
    /\ c.earlierDate = Time(1420070400, 0)

\* C21 as stated: with now = 2015-01-01T00:00:00Z and the bound date
\* 2014-07-02T00:00:00Z the approximate mode with addSuffix renders
\* "about 6 months ago".
C21_AboutSixMonthsAgo ==
    \A c \in Calls :
        HalfYearBack(c) => c.result = Return("about 6 months ago")

\* C21 as amended: with now = 2015-01-01T00:00:00Z and the bound date
\* 2014-07-02T00:00:00Z the approximate mode with addSuffix renders exactly
\* "6 months ago".
C21_SixMonthsAgo ==
    \A c \in Calls :
        HalfYearBack(c) =>
            /\ c.result = Return("6 months ago")
            /\ formatLabel(<< >>, zone, c.earlierDate, Null, c.laterDate) = c.result

C21_Witness ==
    /\ Len(output) = 1
    /\ HalfYearBack(output[1])
    /\ Distance(output[1]) = Seconds(183 * 86400)
    /\ output[1].result = Return("6 months ago")

\* the label of the arguments a = <<date, pure, includeSeconds, strictOptions>>
\* as a function of the host's time zone z, the clock reading, the active
\* locale loc and a alone: the distance between the date and the clock
\* reading, strict with the unit and the rounding method of strictOptions when
\* its strict is true, approximate with includeSeconds otherwise, without
\* suffix when pure is true
LabelAt(z, clock, loc, a) ==
    IF a[4].type = "object" /\ a[4].strict = "true"
    THEN formatDistanceStrict(z, toDate(a[1]), clock,
             Options(a[2] # "true", FALSE, a[4].unit, a[4].roundingMethod, loc))
    ELSE formatDistance(z, toDate(a[1]), clock,
             Options(a[2] # "true", a[3] = "true", Undefined, Undefined, loc))

\* the call returned or threw what the outcome r of a formatter says
Outcome(call, r) ==
    /\ call.threw = r.threw
    /\ call.error = r.error
    /\ call.text = r.text

\* C22 as stated: a call of $timeago returns the label its arguments and the
\* active locale have at any other time (here: when the clock started); the
\* result depends on the arguments and the locale only.
C22_LabelByArgumentsAndLocale ==
    [][last' = "magic" =>
        Outcome(magicResult',
                LabelAt(zone, StartOfClock, locale, magicResult'.args))]_vars

\* C22 as amended: whatever the state of the bindings (attached or not, the
\* date bound, the text shown, the timers, the visibility) and whatever was
\* called before, a call of $timeago returns the label that its arguments,
\* the active locale and the reading of the clock determine on the host's
\* time zone; hence two calls with identical arguments, an unchanged locale
\* and the same reading of the clock return identical labels.
C22_LabelByArgumentsLocaleAndClock ==
    [][last' = "magic" =>
        Outcome(magicResult',
                LabelAt(zone, now, locale, magicResult'.args))]_vars

\* beside a live binding that shows another label, the call that has the
\* label "less than 20 seconds" when the clock starts returns "half a minute"
\* 15 seconds later
C22_Witness ==
    /\ last = "magic"
    /\ phase = "attached"
    /\ textContent # magicResult.text
    /\ locale = Null
    /\ now = TimeAfter(StartOfClock, 15000)
    /\ magicResult.args =
          <<DateValue(Time(1445734770, 0)), "true", "true", NoStrictOptions>>
    /\ magicResult.text = "half a minute"
    /\ LabelAt(zone, StartOfClock, locale, magicResult.args).text
          = "less than 20 seconds"

\* the word right after the first occurrence of name in the list; Undefined
\* when name is not in the list or is its last word
WordAfterFirst(mods, name) ==
    IF \E i \in 1..Len(mods) : mods[i] = name
    THEN LET i == CHOOSE k \in 1..Len(mods) :
                     mods[k] = name /\ \A j \in 1..(k - 1) : mods[j] # name
         IN IF i < Len(mods) THEN mods[i + 1] ELSE Undefined
    ELSE Undefined

ForcedUnit(mods) ==
    IF WordAfterFirst(mods, "unit") \in Units
    THEN WordAfterFirst(mods, "unit") ELSE Undefined

SelectedRounding(mods) ==
    IF WordAfterFirst(mods, "rounding") \in RoundingMethods
    THEN WordAfterFirst(mods, "rounding") ELSE Undefined

\* the label of the strict formatter for the bound date, with unit and method
StrictLabel(unit, method) ==
    formatDistanceStrict(zone, toDate(value), now,
                         Options(TRUE, FALSE, unit, method, locale))

\* C23: for every modifier list with "strict" the forced unit is the word
\* right after the first "unit" when that word is a unit, and unset otherwise
\* (no "unit", "unit" last, a word that is no unit); the rounding method is
\* the word right after the first "rounding" when it is floor, ceil or round,
\* and unset otherwise.  A word that is not recognized raises no error.
C23_UnitAndRoundingByPosition ==
    (phase = "attached" /\ Has(modifiers, "strict"))
        => /\ textContent =
                StrictLabel(ForcedUnit(modifiers), SelectedRounding(modifiers)).text
           /\ logged = 0
           /\ ~hostError

\* "unit" is followed by a word that is no unit and "rounding" by "minute":
\* the label is that of the strict mode without unit and method
C23_Witness ==
    /\ phase = "attached"
    /\ modifiers = <<"strict", "unit", "rounding", "minute">>
    /\ value = DateValue(Time(1445734739, 700))
    /\ textContent = "40 seconds ago"
    /\ logged = 0

\* the label C24 gives the call with the arguments a at the present clock
LabelOfCall(a) ==
    LET addSuffix == a[2] # "true"
        includeSeconds == a[3] = "true"
        strict == a[4].type = "object" /\ a[4].strict = "true"
    IN IF strict
       THEN formatDistanceStrict(zone, toDate(a[1]), now,
                Options(addSuffix, FALSE, a[4].unit, a[4].roundingMethod, locale))
       ELSE formatDistance(zone, toDate(a[1]), now,
                Options(addSuffix, includeSeconds, Undefined, Undefined, locale))

\* C24: $timeago(date, pure, includeSeconds, strictOptions) takes an absent
\* or null pure and includeSeconds for false; it formats in strict mode, with
\* strictOptions.unit and strictOptions.roundingMethod, exactly when
\* strictOptions is given and its strict is true; otherwise it formats in
\* approximate mode with addSuffix = not pure and the given includeSeconds,
\* whatever unit and roundingMethod are.
C24_MagicArguments ==
    magicResult.called
        => LET r == LabelOfCall(magicResult.args)
           IN /\ magicResult.threw = r.threw
              /\ magicResult.text = r.text

\* strictOptions without strict: true is given with a unit, pure is null and
\* includeSeconds is left out: the label is the approximate one with suffix
C24_Witness ==
    /\ magicResult.called
    /\ now = StartOfClock
    /\ magicResult.args = <<DateValue(Time(1445734770, 0)), "null", "undefined",
                            StrictOptions("object", "false", "minute", "floor")>>
    /\ magicResult.text = "less than a minute ago"

\* C25: in every reachable state of a binding, after any sequence of attach,
\* re-evaluations, ticks, visibility changes and teardown, at most one timer
\* of the binding is live; when a timer is armed, no earlier one is live.
C25_AtMostOneLiveTimer ==
    /\ Cardinality(timers) <= 1
    /\ (Has(trace, "setInterval") \/ last = "visible")
          => \A t \in timers : t.id = interval

\* the third timer of the binding is live, alone
C25_Witness ==
    /\ phase = "attached"
    /\ last = "effect"
    /\ Has(trace, "clearInterval")
    /\ Cardinality(timers) = 1
    /\ \E t \in timers : t.id = 3

\* the bound value as the effect hands it to render and to the timer:
\* index.ts parses a string first
Established(v) ==
    IF variant = "ts" /\ v.type = "string" THEN DateValue(parseISO(v.str)) ELSE v

\* C26: once a re-evaluation has established a new bound value, no tick
\* renders an older one: every live timer holds the value of the most recent
\* re-evaluation, and a tick writes what a render of that value writes.
C26_TicksRenderCurrentValue ==
    [][/\ \A t \in timers' : t.date = Established(value')
       /\ last' = "tick" =>
            \E r \in {render(variant, modifiers, zone, now, locale, textContent,
                             Established(value))} :
                /\ textContent' = r.textContent
                /\ logged' = r.logged
      ]_vars

\* after two re-evaluations the timer armed by the second one has ticked and
\* has rendered the second value
C26_Witness ==
    /\ last = "tick"
    /\ phase = "attached"
    /\ value = StringValue("2015-10-25T00:59:50.500Z")
    /\ \E t \in timers : t.id = 3 /\ t.date = Established(value)
    /\ logged = 0
    /\ textContent # ""

\* the seconds of the distance of a call rounded to the nearest integer, and
\* cut to an integer
SecondsRounded(c) == Distance(c).sec + (IF Distance(c).ms >= 500 THEN 1 ELSE 0)
SecondsTruncated(c) == Distance(c).sec

\* the label of the approximate ladder when s is its whole-second distance,
\* for distances under 90 seconds
LadderOn(s) ==
    IF input.options.includeSeconds /\ Nearest(s, 60) < 2
    THEN LadderOfSeconds(s)
    ELSE LadderOfMinutes(Nearest(s, 60))

\* an approximate call on valid dates less than 90 seconds apart, with no
\* change of offset between them, that shows the token and the count
ShortApproximateCall(c) ==
    /\ input.fn = "formatDistance"
    /\ ShowsToken(c)
    /\ OffsetFall(c) = 0
    /\ DistanceSeconds(c) < 90

\* C27 as stated: the whole-second distance of the approximate ladder is the
\* millisecond distance over 1000 rounded to the nearest integer: 4600 ms
\* count as 5 seconds and give "less than 10 seconds" with includeSeconds.
C27_SecondsAreRounded ==
    \A c \in Calls :
        ShortApproximateCall(c) =>
            /\ c.result = Return(LadderOn(SecondsRounded(c)))
            /\ (input.options.includeSeconds /\ Distance(c) = [sec |-> 4, ms |-> 600])
                  => c.result = Return(TokenAndCount("lessThanXSeconds", 10))

\* C27 as amended: the whole-second distance of the approximate ladder is the
\* millisecond distance over 1000 cut to an integer (Math.trunc): 4600 ms
\* count as 4 seconds and give "less than 5 seconds" with includeSeconds.
C27_SecondsAreTruncated ==
    \A c \in Calls :
        ShortApproximateCall(c) =>
            /\ c.result = Return(LadderOn(SecondsTruncated(c)))
            /\ (input.options.includeSeconds /\ Distance(c) = [sec |-> 4, ms |-> 600])
                  => c.result = Return(TokenAndCount("lessThanXSeconds", 5))

\* 4600 ms with includeSeconds: less than 5 seconds
C27_Witness ==
    /\ Len(output) = 1
    /\ ShortApproximateCall(output[1])
    /\ input.options.includeSeconds
    /\ Distance(output[1]) = [sec |-> 4, ms |-> 600]
    /\ SecondsRounded(output[1]) = 5
    /\ output[1].result = Return("lessThanXSeconds:5")

IsSeconds(word) == word = "seconds"

\* the label a binding with the modifier list mods renders for the bound
\* date at the present clock
LabelUnder(mods) == formatLabel(mods, zone, now, locale, toDate(value)).text

\* C28: two bindings with the same bound date and clock whose modifier lists
\* differ only in options that do not apply to their mode render the same
\* label: without "strict" the label is that of the list without its unit
\* and rounding words; with "strict" the label is that of the list with
\* "seconds" added.
C28_InapplicableModifiersIgnored ==
    phase = "attached" =>
        IF Has(modifiers, "strict")
        THEN /\ textContent = LabelUnder(Append(modifiers, "seconds"))
             /\ textContent = LabelUnder(<<"seconds">> \o modifiers)
        ELSE /\ textContent = LabelUnder(SelectSeq(modifiers, IsSeconds))
             /\ textContent = LabelUnder(modifiers \o <<"unit", "minute">>)
             /\ textContent = LabelUnder(modifiers \o <<"rounding", "ceil">>)

\* a strict binding with "seconds" shows the strict label of 40.3 s, which
\* is neither of the two approximate labels
C28_Witness ==
    /\ phase = "attached"
    /\ modifiers = <<"strict", "seconds", "unit">>
    /\ value = DateValue(Time(1445734739, 700))
    /\ textContent = "40 seconds ago"
    /\ LabelUnder(<<"strict">>) = "40 seconds ago"
    /\ LabelUnder(<<"seconds">>) = "less than a minute ago"
    /\ LabelUnder(<< >>) = "1 minute ago"

\* C29: $timeago does not suppress the errors of the formatter: for a date
\* argument that is an invalid date the Invalid-Input error (RangeError:
\* Invalid time value) is raised to the caller, nothing is logged, no label
\* is returned and no state changes.
C29_MagicRaisesInvalidInput ==
    [][(last' = "magic" /\ ~toDate(magicResult'.args[1]).valid)
        => /\ magicResult'.threw
           /\ magicResult'.error = "RangeError: Invalid time value"
           /\ magicResult'.text = ""
           /\ logged' = 0
           /\ UNCHANGED <<phase, value, interval, timers, nextId, textContent,
                          visibility, locale, now>>
      ]_vars

\* $timeago("not-a-date") has thrown beside a live binding, whose label and
\* timer are as they were
C29_Witness ==
    /\ last = "magic"
    /\ magicResult.args[1] = StringValue("not-a-date")
    /\ magicResult.threw
    /\ logged = 0
    /\ phase = "attached"
    /\ textContent = "less than a minute ago"
    /\ Cardinality(timers) = 1

\* the label of c carries a count below zero
NegativeCount(c) ==
    \E token \in Tokens : StartsWith(c.result.text, token \o ":-")

\* C30: in approximate mode the count put into the label is never negative:
\* for every pair of valid dates and every difference between their local
\* UTC offsets, a daylight-saving change between them included, the
\* DST-corrected rounded minute count is 0 or more, and no label such as
\* "-50 minutes" is produced.
C30_CountNeverNegative ==
    \A c \in Calls :
        (input.fn = "formatDistance" /\ c.laterDate.valid /\ c.earlierDate.valid)
            => /\ RoundedMinutes(c) >= 0
               /\ ShowsToken(c) => ~NegativeCount(c)
               /\ c.result.text \notin {"-60 minutes", "-60 minutes ago",
                                        "in -60 minutes"}

====
